---- MODULE Spec2Model ----
(***************************************************************************)
(* Model of xyzduck's GeoJSON loader: schema inference (inferType,         *)
(* inferSchemaFromGeoJSON), table creation and the bulk insert of          *)
(* src/geojson/loader.go, and the catalog queries of                       *)
(* src/database/duckdb.go.                                                 *)
(***************************************************************************)
EXTENDS Integers, Sequences, FiniteSets, TLC

VARIABLES
    arch,        \* the platform the binary was built for
    call,        \* pure-function harness: which function was applied
    arg,         \* pure-function harness: its argument
    ret,         \* pure-function harness: inferType's result
    argFile,     \* pure-function harness: the file given to schema inference
    retSchema,   \* pure-function harness: the Schema it returned
    retErr,      \* pure-function harness: the error it returned
    argPath,     \* pure-function harness: runLoad's args[0]
    argFlag,     \* pure-function harness: runLoad's --table value
    retName,     \* pure-function harness: the table name runLoad resolved
    promptPc,    \* promptForFilename: idle, running (inside p.Run) or returned
    textInput,   \* filenameModel.textInput's value
    mErr,        \* filenameModel.err
    submitted,   \* filenameModel.submitted
    cancelled,   \* filenameModel.cancelled
    quitPending, \* a tea.Quit command was returned and its QuitMsg not yet handled
    runErr,      \* the error p.Run returned
    promptRet,   \* what promptForFilename returned: [filename, err]
    initErr,     \* the error runInit returned from its filename step
    lastUpdate,  \* the last call of Update: its message, the trimmed input, its command
    msgCount,    \* messages Update has handled
    catalog,     \* the store: table name -> its information_schema.columns rows
    rows,        \* the store: table name -> its rows, in insertion order
    command,     \* the command being run: none, init or load
    cmdPc,       \* runInit's or runLoad's position
    dbPath,      \* the database file of the command, with its .duckdb extension
    geojsonPath, \* runLoad: args[0]
    tableFlag,   \* runLoad: the --table value
    cmdTableName,\* runLoad: tableName
    disk,        \* the paths of the files that exist
    cmdErr,      \* the error the command returned
    cmdStmts,    \* the storage operations of the invocation, in order, with their outcome
    cmdStore0,   \* the store when the command started
    cmdCount,    \* commands started
    conns,       \* open database handles, by the function that opened them
    temp,        \* whether temp_geojson exists on the open connection
    pc,          \* position of the current LoadGeoJSON invocation
    file,        \* LoadGeoJSON: the file at geojsonPath
    tableName,   \* LoadGeoJSON: tableName
    tableExists, \* LoadGeoJSON: tableExists (line 57)
    schema,      \* LoadGeoJSON: schema (line 64)
    target,      \* loadDataIntoTable: schema (line 183)
    rowCount,    \* LoadGeoJSON: the returned row count
    err,         \* LoadGeoJSON: the returned error
    store0,      \* history: the store when the invocation started
    stmts,       \* history: what the invocation has called or executed
    createdWith, \* history: table name -> the Schema it was created from
    hist         \* history: per table, loads finished and features loaded

harnessVars == <<call, arg, ret, argFile, retSchema, retErr, argPath, argFlag, retName>>
storeVars == <<catalog, rows>>
localVars == <<file, tableName, tableExists, schema, target, rowCount, err>>
historyVars == <<store0, stmts, createdWith, hist>>
loaderVars == <<storeVars, conns, temp, pc, localVars, historyVars>>
promptVars == <<promptPc, textInput, mErr, submitted, cancelled, quitPending,
                runErr, promptRet, initErr, lastUpdate, msgCount>>
cmdVars == <<command, cmdPc, dbPath, geojsonPath, tableFlag, cmdTableName, disk, cmdErr,
             cmdStmts, cmdStore0, cmdCount>>
vars == <<arch, harnessVars, promptVars, cmdVars, loaderVars>>

\* ---------------------------------------------------------------- bounds
MaxHi == 3        \* numbers reach MaxHi * 2^62 in magnitude
MaxTwice == 5     \* small numbers reach MaxTwice / 2 in magnitude
MaxLoads == 2     \* LoadGeoJSON invocations per behaviour
MaxFeatures == 2  \* features per loaded document
MaxPathLen == 3   \* characters of a file path given to the load command
MaxFlagLen == 2   \* characters of a --table value
MaxMsgs == 4      \* messages the filename prompt handles in one run
MaxCmds == 2      \* init and load commands run one after the other

\* ------------------------------------------------------------ JSON values
\* A decoded JSON value (Go: interface{}).  A number is a float64 whose value
\* is hi * 2^62 + twice / 2; large numbers (hi # 0) carry no fraction.
Val(shape, text, hi, twice) ==
    [shape |-> shape, text |-> text, hi |-> hi, twice |-> twice]

Num(hi, twice) == Val("number", "", hi, twice)
Str(text) == Val("string", text, 0, 0)
Bool(text) == Val("bool", text, 0, 0)
NullV == Val("null", "", 0, 0)
ArrayV == Val("array", "[]", 0, 0)
ObjectV == Val("object", "{}", 0, 0)

Archs == {"amd64", "arm64"}

NumValues ==
    {Num(h, t) : h \in {0}, t \in -MaxTwice..MaxTwice}
        \cup {Num(h, 0) : h \in -MaxHi..MaxHi}

Values ==
    NumValues \cup {Str("abc"), Str("12"), Bool("true"), Bool("false"),
                    NullV, ArrayV, ObjectV}

\* --------------------------------------------------------------- inferType
\* int64(v): truncation toward zero.  An int64 is hi * 2^62 + lo.  A value
\* outside [-2^63, 2^63) has an implementation-dependent result: amd64 yields
\* the integer indefinite value -2^63, arm64 saturates.
TruncHalf(twice) == IF twice >= 0 THEN twice \div 2 ELSE -((-twice) \div 2)

FitsInt64(v) == v.hi >= -2 /\ v.hi <= 1

Int64OfFloat64(v) ==
    IF FitsInt64(v)
    THEN [hi |-> v.hi, lo |-> TruncHalf(v.twice)]
    ELSE IF arch = "arm64" /\ v.hi > 0
         THEN [hi |-> 2, lo |-> -1]
         ELSE [hi |-> -2, lo |-> 0]

\* float64(i): rounds to the nearest float64; near 2^62 and above the
\* spacing of float64 values exceeds the small offsets modelled here.
Float64OfInt64(i) ==
    IF i.hi # 0
    THEN Num(i.hi, 0)
    ELSE Num(0, 2 * i.lo)

inferType(value) ==
    CASE value.shape = "string" -> "VARCHAR"
      [] value.shape = "number" ->
            IF value = Float64OfInt64(Int64OfFloat64(value))
            THEN "BIGINT"
            ELSE "DOUBLE"
      [] value.shape = "bool" -> "BOOLEAN"
      [] value.shape = "null" -> "VARCHAR"
      [] OTHER -> "VARCHAR"

\* ------------------------------------------------- features and documents
\* Feature.Properties is a Go map: a function from the keys present to values.
Feature(props, geometry) == [props |-> props, geometry |-> geometry]

PropMaps(keys, values) == UNION {[D -> values] : D \in SUBSET keys}

Empty == <<>>       \* a map with no keys: "properties": {} or null

\* The file at geojsonPath: missing, not JSON, or a document with features.
File(kind, features) == [kind |-> kind, features |-> features]
DocFile(features) == File("ok", features)
MissingFile == File("missing", <<>>)
MalformedFile == File("malformed", <<>>)

Column(name, type) == [name |-> name, type |-> type]

\* Go iterates a map in an unspecified order: any enumeration of its keys.
IterationOrders(m) ==
    {o \in [1..Cardinality(DOMAIN m) -> DOMAIN m] :
        \A i, j \in DOMAIN o : o[i] = o[j] => i = j}

NoError == "nil"
ErrReadFile == "failed to read GeoJSON file"
ErrParse == "failed to parse GeoJSON"
ErrNoFeatures == "GeoJSON file contains no features"

\* ------------------------------------------------- inferSchemaFromGeoJSON
SeqOfSet(S) ==
    LET RECURSIVE Enum(_)
        Enum(T) == IF T = {} THEN <<>>
                   ELSE LET x == CHOOSE y \in T : TRUE IN <<x>> \o Enum(T \ {x})
    IN  Enum(S)

\* Variant: a column for every key of every feature, not of the first alone.
inferSchemaAllFeatures(src, order) ==
    IF src.kind = "missing" THEN [schema |-> <<>>, err |-> ErrReadFile]
    ELSE IF src.kind = "malformed" THEN [schema |-> <<>>, err |-> ErrParse]
    ELSE IF Len(src.features) = 0 THEN [schema |-> <<>>, err |-> ErrNoFeatures]
    ELSE LET first == src.features[1]
             later == UNION {DOMAIN src.features[k].props : k \in 1..Len(src.features)}
             extra == SeqOfSet(later \ DOMAIN first.props)
         IN  [schema |->
                 [i \in 1..Len(order) |-> Column(order[i], inferType(first.props[order[i]]))]
                     \o [i \in 1..Len(extra) |-> Column(extra[i], "VARCHAR")]
                     \o <<Column("geom", "GEOMETRY")>>,
              err |-> NoError]

\* Variant: no check for an empty features array; a Schema of geom alone.
inferSchemaUnchecked(src, order) ==
    IF src.kind = "missing" THEN [schema |-> <<>>, err |-> ErrReadFile]
    ELSE IF src.kind = "malformed" THEN [schema |-> <<>>, err |-> ErrParse]
    ELSE [schema |->
             [i \in 1..Len(order) |->
                 Column(order[i], inferType(src.features[1].props[order[i]]))]
                 \o <<Column("geom", "GEOMETRY")>>,
          err |-> NoError]

\* order is the order in which range visits firstFeature.Properties.
inferSchemaFromGeoJSON(src, order) ==
    IF src.kind = "missing" THEN [schema |-> <<>>, err |-> ErrReadFile]
    ELSE IF src.kind = "malformed" THEN [schema |-> <<>>, err |-> ErrParse]
    ELSE IF Len(src.features) = 0 THEN [schema |-> <<>>, err |-> ErrNoFeatures]
    ELSE LET firstFeature == src.features[1]
             columns == [i \in 1..Len(order) |->
                            Column(order[i], inferType(firstFeature.props[order[i]]))]
         IN  [schema |-> Append(columns, Column("geom", "GEOMETRY")),
              err |-> NoError]

\* The orders range can take for the file's first feature (none if no feature).
OrdersOf(src) ==
    IF src.kind = "ok" /\ Len(src.features) > 0
    THEN IterationOrders(src.features[1].props)
    ELSE {<<>>}

\* ------------------------------------------------------------ sample inputs
SchemaKeys == {"name", "pop", "geom"}
SampleValues == {Str("abc"), Num(0, 14), Num(0, 3), Bool("true"), NullV, ObjectV}
Geometries == {"valid", "invalid"}

SampleFeatures ==
    {Feature(p, g) : p \in PropMaps(SchemaKeys, SampleValues), g \in Geometries}

LaterFeatures ==
    {Feature(Empty, "valid"), Feature([k \in {"extra"} |-> Str("abc")], "valid")}

SampleFiles ==
    {MissingFile, MalformedFile, DocFile(<<>>)}
        \cup {DocFile(<<f>>) : f \in SampleFeatures}
        \cup {DocFile(<<f, g>>) : f \in SampleFeatures, g \in LaterFeatures}

\* ------------------------------------------------- runLoad: the table name
\* Strings are sequences of one-character strings.
Slash == "/"
Dot == "."

DropLast(str) == SubSeq(str, 1, Len(str) - 1)

RECURSIVE StripTrailingSlashes(_)
StripTrailingSlashes(path) ==
    IF Len(path) > 0 /\ path[Len(path)] = Slash
    THEN StripTrailingSlashes(DropLast(path))
    ELSE path

\* Index of the last occurrence of char in str, 0 if there is none.
LastIndex(str, char) ==
    LET at == {i \in 1..Len(str) : str[i] = char}
    IN  IF at = {} THEN 0 ELSE CHOOSE i \in at : \A j \in at : j <= i

\* filepath.Base
Base(path) ==
    IF path = <<>> THEN <<Dot>>
    ELSE LET stripped == StripTrailingSlashes(path)
             last == SubSeq(stripped, LastIndex(stripped, Slash) + 1, Len(stripped))
         IN  IF last = <<>> THEN <<Slash>> ELSE last

\* filepath.Ext: from the last dot of the last path element, or empty.
Ext(path) ==
    LET dot == LastIndex(path, Dot) IN
    IF dot > LastIndex(path, Slash) THEN SubSeq(path, dot, Len(path)) ELSE <<>>

HasSuffix(str, suffix) ==
    /\ Len(suffix) <= Len(str)
    /\ SubSeq(str, Len(str) - Len(suffix) + 1, Len(str)) = suffix

\* strings.TrimSuffix
TrimSuffix(str, suffix) ==
    IF HasSuffix(str, suffix) THEN SubSeq(str, 1, Len(str) - Len(suffix)) ELSE str

\* Variant: strings.Replace(str, old, new, 1): the first occurrence only.
ReplaceFirst(str, old, new) ==
    LET at == {i \in 1..Len(str) : str[i] = old} IN
    [i \in 1..Len(str) |->
        IF i \in at /\ \A j \in at : i <= j THEN new ELSE str[i]]

\* strings.ReplaceAll for a one-character old and new.
ReplaceAll(str, old, new) ==
    [i \in 1..Len(str) |-> IF str[i] = old THEN new ELSE str[i]]

\* runLoad lines 225-226: the base name without its extension.
Stem(path) == TrimSuffix(Base(path), Ext(Base(path)))

\* runLoad lines 221-230.
ResolveTableName(path, flag) ==
    IF flag = <<>>
    THEN ReplaceAll(ReplaceAll(Stem(path), "-", "_"), " ", "_")
    ELSE flag

PathChars == {"a", "-", " ", Dot, Slash}
FlagChars == {"a", "-", " "}
Strings(chars, n) == UNION {[1..k -> chars] : k \in 0..n}

\* ------------------------------------------------ runInit: the filename prompt
CharLimit == 156

NoMessage == [msg |-> "none", value |-> <<>>, cmd |-> "nil"]
NoReturn == [filename |-> <<>>, err |-> "nil"]

ErrEmptyFilename == "filename cannot be empty"
ErrCancelled == "cancelled by user"
ErrRunningPrompt == "error running prompt"
ErrMsg == "error message"

RECURSIVE TrimLeft(_)
TrimLeft(str) ==
    IF Len(str) > 0 /\ str[1] = " " THEN TrimLeft(Tail(str)) ELSE str

RECURSIVE TrimRight(_)
TrimRight(str) ==
    IF Len(str) > 0 /\ str[Len(str)] = " " THEN TrimRight(DropLast(str)) ELSE str

\* strings.TrimSpace
TrimSpace(str) == TrimRight(TrimLeft(str))

\* The messages the event loop hands to Update: typed characters, editing
\* and control keys, and error messages.
KeyRunes == {"a", " "}
Messages == KeyRunes \cup {"backspace", "enter", "ctrl+c", "esc", "error"}

\* textinput.Model.Update for the keys above: a rune is appended up to
\* CharLimit, backspace deletes the last character.
TextInputUpdate(value, msg) ==
    IF msg \in KeyRunes
    THEN IF Len(value) < CharLimit THEN Append(value, msg) ELSE value
    ELSE IF msg = "backspace" /\ Len(value) > 0 THEN DropLast(value)
    ELSE value

\* initialModel
PromptIdle ==
    /\ promptPc = "idle"
    /\ textInput = <<>>
    /\ mErr = "nil"
    /\ submitted = FALSE
    /\ cancelled = FALSE
    /\ quitPending = FALSE
    /\ runErr = "nil"
    /\ promptRet = NoReturn
    /\ initErr = "nil"
    /\ lastUpdate = NoMessage
    /\ msgCount = 0

\* runInit without an argument: promptForFilename starts the program.
StartPrompt ==
    /\ promptPc = "idle"
    /\ promptPc' = "running"
    /\ UNCHANGED <<textInput, mErr, submitted, cancelled, quitPending, runErr,
                   promptRet, initErr, lastUpdate, msgCount>>
    /\ UNCHANGED <<arch, harnessVars, cmdVars, loaderVars>>

\* filenameModel.Update, the Enter branch: what it sets and returns.
UpdateEnter(value) ==
    IF TrimSpace(value) = <<>>
    THEN [err |-> ErrEmptyFilename, submitted |-> submitted, cmd |-> "nil"]
    ELSE [err |-> "nil", submitted |-> TRUE, cmd |-> "quit"]

\* filenameModel.Update: the event loop hands it one message.  A returned
\* tea.Quit is a command: its QuitMsg is handled later, and messages already
\* read from the terminal can be handled before it.
UpdateModel ==
    \E msg \in Messages :
        /\ promptPc = "running"
        /\ msgCount < MaxMsgs
        /\ msgCount' = msgCount + 1
        /\ \/ /\ msg = "enter"
              /\ LET r == UpdateEnter(textInput) IN
                   /\ mErr' = r.err
                   /\ submitted' = r.submitted
                   /\ quitPending' = (quitPending \/ r.cmd = "quit")
                   /\ lastUpdate' = [msg |-> msg, value |-> TrimSpace(textInput),
                                     cmd |-> r.cmd]
              /\ UNCHANGED <<textInput, cancelled>>
           \/ /\ msg \in {"ctrl+c", "esc"}
              /\ cancelled' = TRUE
              /\ quitPending' = TRUE
              /\ lastUpdate' = [msg |-> msg, value |-> TrimSpace(textInput),
                                cmd |-> "quit"]
              /\ UNCHANGED <<textInput, mErr, submitted>>
           \/ /\ msg = "error"
              /\ mErr' = ErrMsg
              /\ lastUpdate' = [msg |-> msg, value |-> TrimSpace(textInput),
                                cmd |-> "nil"]
              /\ UNCHANGED <<textInput, submitted, cancelled, quitPending>>
           \/ /\ msg \in KeyRunes \cup {"backspace"}
              /\ textInput' = TextInputUpdate(textInput, msg)
              /\ lastUpdate' = [msg |-> msg, value |-> TrimSpace(textInput),
                                cmd |-> "nil"]
              /\ UNCHANGED <<mErr, submitted, cancelled, quitPending>>
        /\ UNCHANGED <<promptPc, runErr, promptRet, initErr>>
        /\ UNCHANGED <<arch, harnessVars, cmdVars, loaderVars>>

\* promptForFilename after p.Run returned with runError.
PromptResult(runError) ==
    IF runError # "nil" THEN [filename |-> <<>>, err |-> ErrRunningPrompt]
    ELSE IF cancelled THEN [filename |-> <<>>, err |-> ErrCancelled]
    ELSE IF mErr # "nil" THEN [filename |-> <<>>, err |-> mErr]
    ELSE [filename |-> TrimSpace(textInput), err |-> "nil"]

\* runInit lines 36-45: the prompt's error, or the validation of the filename.
FilenameStep(r) ==
    IF r.err # "nil" THEN r.err
    ELSE IF TrimSpace(r.filename) = <<>> THEN ErrEmptyFilename
    ELSE "nil"

\* p.Run returns with runError; promptForFilename and runInit continue.
RunReturns(runError) ==
    /\ runErr' = runError
    /\ promptRet' = PromptResult(runError)
    /\ initErr' = FilenameStep(PromptResult(runError))
    /\ promptPc' = "returned"
    /\ UNCHANGED <<textInput, mErr, submitted, cancelled, quitPending,
                   lastUpdate, msgCount>>
    /\ UNCHANGED <<arch, harnessVars, cmdVars, loaderVars>>

\* The event loop handles the QuitMsg: p.Run returns the model without error.
QuitDelivered ==
    /\ promptPc = "running"
    /\ quitPending
    /\ RunReturns("nil")

\* p.Run fails (the program is killed or its terminal cannot be used).
RunFailed ==
    /\ promptPc = "running"
    /\ RunReturns("run error")

NextPrompt ==
    \/ StartPrompt
    \/ UpdateModel
    \/ QuitDelivered
    \/ RunFailed

\* -------------------------------------------------- command-line strings
\* The file names, flags and table names of the commands, with the characters
\* each is made of.
GeojsonExt == <<".", "g", "e", "o", "j", "s", "o", "n">>
DuckdbExt == <<".", "d", "u", "c", "k", "d", "b">>

Spelling ==
    LET cities == <<"c", "i", "t", "i", "e", "s">>
        absent == <<"a", "b", "s", "e", "n", "t">>
        mydata == <<"m", "y", "d", "a", "t", "a">>
    IN  ("" :> <<>>) @@ (" " :> <<" ">>)
        @@ ("cities" :> cities) @@ ("cities.geojson" :> cities \o GeojsonExt)
        @@ ("absent" :> absent) @@ ("absent.geojson" :> absent \o GeojsonExt)
        @@ (".geojson" :> GeojsonExt)
        @@ ("parks" :> <<"p", "a", "r", "k", "s">>)
        @@ ("my-table" :> <<"m", "y", "-", "t", "a", "b", "l", "e">>)
        @@ ("mydata" :> mydata) @@ ("mydata.duckdb" :> mydata \o DuckdbExt)

StringOf(chars) == CHOOSE str \in DOMAIN Spelling : Spelling[str] = chars

Letters == {"a", "b", "c", "d", "e", "f", "g", "h", "i", "j", "k", "l", "m",
            "n", "o", "p", "q", "r", "s", "t", "u", "v", "w", "x", "y", "z"}

\* A name the engine accepts unquoted in CREATE TABLE name (...).
ValidIdentifier(name) ==
    LET chars == Spelling[name] IN
    /\ chars # <<>>
    /\ \A i \in 1..Len(chars) : chars[i] \in Letters \cup {"_"}

\* EnsureDuckDBExtension
EnsureDuckDBExtension(filename) ==
    IF HasSuffix(filename, DuckdbExt) THEN filename ELSE filename \o DuckdbExt

\* FileExists
FileExists(files, filename) == filename \in files

\* ---------------------------------------------------------------- the store
\* The engine behind database/sql: its catalog views and the statements the
\* loader sends to it.
TableNames == {"cities", "parks"}

\* The engine's logical type for a type name written in DDL, and the name
\* information_schema.columns reports for it in data_type.
ParseTypeName(name) ==
    CASE name \in {"VARCHAR", "TEXT", "STRING"} -> "varchar"
      [] name \in {"BIGINT", "INT8", "LONG"} -> "bigint"
      [] name \in {"DOUBLE", "FLOAT8"} -> "double"
      [] name \in {"BOOLEAN", "BOOL"} -> "boolean"
      [] name = "GEOMETRY" -> "geometry"
      [] OTHER -> "invalid"

DataTypeName(type) ==
    CASE type = "varchar" -> "VARCHAR"
      [] type = "bigint" -> "BIGINT"
      [] type = "double" -> "DOUBLE"
      [] type = "boolean" -> "BOOLEAN"
      [] type = "geometry" -> "GEOMETRY"
      [] OTHER -> "INVALID"

\* information_schema.tables, as far as the loader's query reads it.
InformationSchemaTables(cat) == {r.table_name : r \in cat}

ColumnsOf(cat, name) == {r \in cat : r.table_name = name}

\* SELECT COUNT(*) > 0 FROM information_schema.tables WHERE table_name = ?
TableExists(cat, name) ==
    Cardinality({n \in InformationSchemaTables(cat) : n = name}) > 0

\* SELECT column_name, data_type FROM information_schema.columns
\* WHERE table_name = ? ORDER BY ordinal_position
GetTableSchema(cat, name) ==
    LET rs == ColumnsOf(cat, name)
        Nth(i) == CHOOSE r \in rs :
                     Cardinality({q \in rs : q.ordinal_position < r.ordinal_position}) = i - 1
    IN  [i \in 1..Cardinality(rs) |-> Column(Nth(i).column_name, Nth(i).data_type)]

HasDuplicateNames(cols) ==
    \E i, j \in 1..Len(cols) : i # j /\ cols[i].name = cols[j].name

\* CREATE TABLE name (col type, ...): refused when the name is not an
\* identifier (the statement does not parse), when the name is taken, a
\* column name repeats or a type name is unknown.
CreateTableFails(cat, name, cols) ==
    \/ ~ValidIdentifier(name)
    \/ name \in InformationSchemaTables(cat)
    \/ Len(cols) = 0
    \/ HasDuplicateNames(cols)
    \/ \E i \in 1..Len(cols) : ParseTypeName(cols[i].type) = "invalid"

CreateTable(cat, name, cols) ==
    cat \cup {[table_name |-> name,
               column_name |-> cols[i].name,
               data_type |-> DataTypeName(ParseTypeName(cols[i].type)),
               ordinal_position |-> i] : i \in 1..Len(cols)}

\* Variant: every property column is declared VARCHAR, whatever was inferred.
createTableFromSchemaUntyped(sch) ==
    [i \in 1..Len(sch) |->
        Column(sch[i].name, IF sch[i].type = "GEOMETRY" THEN "GEOMETRY" ELSE "VARCHAR")]

\* createTableFromSchema: the column definitions of the CREATE TABLE it sends.
createTableFromSchema(sch) ==
    [i \in 1..Len(sch) |-> Column(sch[i].name, sch[i].type)]

\* ------------------------------------------------------------- SQL values
SqlNull == Val("NULL", "", 0, 0)
CastError == Val("ERROR", "", 0, 0)
SqlGeometry == Val("GEOMETRY", "<geometry>", 0, 0)
NumberText == "<number>"

\* JSON strings whose text reads as a number.
NumericStrings == {"12"}
NumberOfString(text) == IF text = "12" THEN Num(0, 24) ELSE NullV

\* Variant: a key the feature lacks is an error, not a NULL.
JsonExtractStringStrict(props, key) ==
    IF key \notin DOMAIN props THEN CastError
    ELSE LET v == props[key] IN
         CASE v.shape = "null" -> SqlNull
           [] v.shape = "number" -> Val("VARCHAR", NumberText, v.hi, v.twice)
           [] OTHER -> Val("VARCHAR", v.text, 0, 0)

\* properties->>'key': the value as text, NULL for a missing key or a null.
JsonExtractString(props, key) ==
    IF key \notin DOMAIN props THEN SqlNull
    ELSE LET v == props[key] IN
         CASE v.shape = "null" -> SqlNull
           [] v.shape = "number" -> Val("VARCHAR", NumberText, v.hi, v.twice)
           [] v.shape = "string" /\ v.text \in NumericStrings ->
                 Val("VARCHAR", NumberText, NumberOfString(v.text).hi,
                     NumberOfString(v.text).twice)
           [] OTHER -> Val("VARCHAR", v.text, 0, 0)

\* ST_GeomFromGeoJSON(json(geometry))
ST_GeomFromGeoJSON(geometry) ==
    IF geometry = "valid" THEN SqlGeometry ELSE CastError

RoundHalf(twice) ==
    IF twice % 2 = 0 THEN twice
    ELSE IF twice > 0 THEN twice + 1 ELSE twice - 1

\* The implicit cast INSERT applies to a selected value for a column's type.
CastTo(v, type) ==
    CASE v.shape = "ERROR" -> CastError
      [] v.shape = "NULL" -> SqlNull
      [] v.shape = type -> v
      [] v.shape = "VARCHAR" /\ type = "BIGINT" ->
            IF v.text = NumberText /\ FitsInt64(v)
            THEN Val("BIGINT", "", v.hi, RoundHalf(v.twice))
            ELSE CastError
      [] v.shape = "VARCHAR" /\ type = "DOUBLE" ->
            IF v.text = NumberText
            THEN Val("DOUBLE", "", v.hi, v.twice)
            ELSE CastError
      [] v.shape = "VARCHAR" /\ type = "BOOLEAN" ->
            IF v.text \in {"true", "false"}
            THEN Val("BOOLEAN", v.text, 0, 0)
            ELSE CastError
      [] v.shape = "GEOMETRY" /\ type = "VARCHAR" -> Val("VARCHAR", "<wkt>", 0, 0)
      [] OTHER -> CastError

\* ------------------------------------------------------- loadDataIntoTable
\* propCols: the target's column names except geom, in the target's order.
propCols(sch) ==
    LET names == [i \in 1..Len(sch) |-> sch[i].name]
        NotGeom(n) == n # "geom"
    IN  SelectSeq(names, NotGeom)

\* selectCols: one properties->>'col' per propCol, then the geometry.
selectCols(sch) ==
    [i \in 1..Len(propCols(sch)) |-> [kind |-> "property", name |-> propCols(sch)[i]]]
        \o <<[kind |-> "geometry", name |-> "geom"]>>

Project(feature, expr) ==
    IF expr.kind = "property"
    THEN JsonExtractString(feature.props, expr.name)
    ELSE ST_GeomFromGeoJSON(feature.geometry)

\* The row INSERT INTO ... SELECT builds for one feature: positional.
InsertRow(feature, exprs, cols) ==
    [i \in 1..Len(cols) |-> CastTo(Project(feature, exprs[i]), cols[i].type)]

RowFails(row) == \E i \in 1..Len(row) : row[i] = CastError

\* INSERT INTO name SELECT exprs FROM unnest(features): one statement, one
\* row per feature in document order, nothing stored when any row fails.
InsertedRows(features, exprs, cols) ==
    [k \in 1..Len(features) |-> InsertRow(features[k], exprs, cols)]

InsertFails(features, exprs, cols) ==
    \/ Len(cols) = 0
    \/ Len(exprs) # Len(cols)
    \/ \E k \in 1..Len(features) : RowFails(InsertRow(features[k], exprs, cols))

\* Variant: rows that fail to convert are left out instead of failing the
\* statement (a TRY_CAST or a filter in the SELECT).
ExecInsertSkipping(cat, rws, name, features, exprs) ==
    LET actual == GetTableSchema(cat, name)
        all == InsertedRows(features, exprs, actual)
        Converts(row) == ~RowFails(row)
        kept == SelectSeq(all, Converts)
    IN  [failed |-> Len(exprs) # Len(actual),
         catalog |-> cat,
         rows |-> [rws EXCEPT ![name] = @ \o kept],
         affected |-> Len(kept)]

\* Variant: the table's rows are overwritten instead of appended to.
ExecInsertOverwriting(cat, rws, name, features, exprs) ==
    LET actual == GetTableSchema(cat, name) IN
    IF InsertFails(features, exprs, actual)
    THEN [failed |-> TRUE, catalog |-> cat, rows |-> rws, affected |-> 0]
    ELSE [failed |-> FALSE,
          catalog |-> cat,
          rows |-> [rws EXCEPT ![name] = InsertedRows(features, exprs, actual)],
          affected |-> Len(features)]

\* Variant: CREATE OR REPLACE TABLE name AS SELECT exprs: the table takes
\* the SELECT's columns, text for every property.
ExecInsertReplacing(cat, rws, name, features, exprs) ==
    LET selected == [i \in 1..Len(exprs) |->
                        Column(exprs[i].name,
                               IF exprs[i].kind = "geometry" THEN "GEOMETRY" ELSE "VARCHAR")]
    IN
    IF InsertFails(features, exprs, selected)
    THEN [failed |-> TRUE, catalog |-> cat, rows |-> rws, affected |-> 0]
    ELSE [failed |-> FALSE,
          catalog |-> CreateTable(cat \ ColumnsOf(cat, name), name, selected),
          rows |-> [rws EXCEPT ![name] = InsertedRows(features, exprs, selected)],
          affected |-> Len(features)]

\* INSERT INTO name SELECT exprs ...: the statement's effect on the store.
ExecInsert(cat, rws, name, features, exprs) ==
    LET actual == GetTableSchema(cat, name) IN
    IF InsertFails(features, exprs, actual)
    THEN [failed |-> TRUE, catalog |-> cat, rows |-> rws, affected |-> 0]
    ELSE [failed |-> FALSE,
          catalog |-> cat,
          rows |-> [rws EXCEPT ![name] = @ \o InsertedRows(features, exprs, actual)],
          affected |-> Len(features)]

\* ------------------------------------------------------------- LoadGeoJSON
Err(wrap, cause) == [wrap |-> wrap, cause |-> cause]
NoErr == Err("", NoError)
ErrEngine == "engine error"

LoadFeatures ==
    {Feature([k \in {"name", "pop"} |-> IF k = "name" THEN Str("abc") ELSE Num(0, 14)], "valid"),
     Feature([k \in {"name", "pop"} |-> IF k = "name" THEN Bool("true") ELSE Num(0, 3)], "valid"),
     Feature([k \in {"name"} |-> Str("abc")], "valid"),
     Feature([k \in {"pop"} |-> Str("abc")], "valid"),
     Feature([k \in {"geom"} |-> Str("abc")], "valid"),
     Feature(Empty, "invalid")}

LoadFiles ==
    {MalformedFile}
        \cup {DocFile(fs) : fs \in UNION {[1..n -> LoadFeatures] : n \in 0..MaxFeatures}}

NoHist == [loads |-> 0, attempted |-> 0, ok |-> 0, creates |-> 0]

Sum(f, S) ==
    LET RECURSIVE Acc(_)
        Acc(T) == IF T = {} THEN 0
                  ELSE LET x == CHOOSE y \in T : TRUE IN f[x] + Acc(T \ {x})
    IN  Acc(S)

LoadsStarted ==
    Sum([t \in TableNames |-> hist[t].loads], TableNames)
        + IF pc \in {"idle", "done", "failed"} THEN 0 ELSE 1

Logged(op, ok) == [op |-> op, ok |-> ok]
Did(op) == \E i \in 1..Len(stmts) : stmts[i] = Logged(op, TRUE)
Issued(op) == \E i \in 1..Len(stmts) : stmts[i].op = op

Finished(success) ==
    [hist EXCEPT ![tableName] =
        [loads |-> @.loads + 1,
         attempted |-> @.attempted + Len(file.features),
         ok |-> @.ok + IF success THEN Len(file.features) ELSE 0,
         creates |-> @.creates]]

\* Variant: a failed invocation drops the table it created.
ReturnErrorWithRollback(e) ==
    /\ pc' = "failed"
    /\ err' = e
    /\ rowCount' = 0
    /\ temp' = FALSE
    /\ hist' = Finished(FALSE)
    /\ catalog' = store0.catalog
    /\ UNCHANGED rows

\* return 0, fmt.Errorf(...): the deferred db.Close() ends the connection and
\* its temporary tables; nothing is undone in the store.
ReturnError(e) ==
    /\ pc' = "failed"
    /\ err' = e
    /\ rowCount' = 0
    /\ temp' = FALSE
    /\ hist' = Finished(FALSE)
    /\ UNCHANGED <<catalog, rows>>

\* Variant: the schema is inferred and the table created on every load.
AfterTableExistsAlwaysCreate(exists) == "infer"

\* line 62: the branch on tableExists.
AfterTableExists(exists) == IF ~exists THEN "infer" ELSE "load"

\* The functions that open a database handle with sql.Open.
Owners == {"CreateOrOpenDatabase", "InitSpatialExtension", "TableExists",
           "GetTableSchema", "LoadGeoJSON"}
NoConns == [o \in Owners |-> 0]

\* sql.Open
OpenConn(c, owner) == [c EXCEPT ![owner] = @ + 1]

\* db.Close
CloseConn(c, owner) == [c EXCEPT ![owner] = @ - 1]

\* Variant: db.Close() at the end of the function instead of deferred, so an
\* error return skips it.
WithConnectionClosedAtEnd(c, owner, ok) ==
    IF ok THEN c ELSE OpenConn(c, owner)

\* A function that opens its own handle, defers db.Close() and returns with
\* or without error (ok): the handles open after it returned.
WithConnection(c, owner, ok) == CloseConn(OpenConn(c, owner), owner)

\* LoadGeoJSON is called: lines 32-49.
BeginLoad(src, name) ==
    /\ file' = src
    /\ tableName' = name
    /\ pc' = "loadSpatial"
    /\ tableExists' = FALSE
    /\ schema' = <<>>
    /\ target' = <<>>
    /\ rowCount' = 0
    /\ err' = NoErr
    /\ store0' = [catalog |-> catalog, rows |-> rows]
    /\ stmts' = <<>>
    /\ conns' = OpenConn(conns, "LoadGeoJSON")
    /\ UNCHANGED <<arch, harnessVars, promptVars, storeVars, temp, createdWith, hist>>

StartLoad ==
    /\ pc \in {"idle", "done", "failed"}
    /\ LoadsStarted < MaxLoads
    /\ \E src \in LoadFiles, name \in TableNames : BeginLoad(src, name)
    /\ UNCHANGED cmdVars

LoadSpatialExtension ==
    /\ pc = "loadSpatial"
    /\ \E ok \in BOOLEAN :
        /\ stmts' = Append(stmts, Logged("LOAD spatial", ok))
        /\ IF ok
           THEN /\ pc' = "tableExists"
                /\ UNCHANGED <<storeVars, conns, temp, rowCount, err, hist>>
           ELSE /\ ReturnError(Err("", "failed to load spatial extension"))
                /\ conns' = CloseConn(conns, "LoadGeoJSON")
    /\ UNCHANGED <<arch, harnessVars, promptVars, cmdVars, file, tableName, tableExists, schema, target,
                   store0, createdWith>>

CheckTableExists ==
    /\ pc = "tableExists"
    /\ \E ok \in BOOLEAN :
        /\ stmts' = Append(stmts, Logged("TableExists", ok))
        /\ IF ok
           THEN /\ tableExists' = TableExists(catalog, tableName)
                /\ pc' = AfterTableExists(tableExists')
                /\ conns' = WithConnection(conns, "TableExists", TRUE)
                /\ UNCHANGED <<storeVars, temp, rowCount, err, hist>>
           ELSE /\ ReturnError(Err("failed to check if table exists", ErrEngine))
                /\ conns' = CloseConn(WithConnection(conns, "TableExists", FALSE),
                                      "LoadGeoJSON")
                /\ UNCHANGED tableExists
    /\ UNCHANGED <<arch, harnessVars, promptVars, cmdVars, file, tableName, schema, target,
                   store0, createdWith>>

InferSchema ==
    /\ pc = "infer"
    /\ \E order \in OrdersOf(file) :
        LET r == inferSchemaFromGeoJSON(file, order) IN
        /\ stmts' = Append(stmts, Logged("inferSchemaFromGeoJSON", r.err = NoError))
        /\ IF r.err = NoError
           THEN /\ schema' = r.schema
                /\ pc' = "create"
                /\ UNCHANGED <<storeVars, conns, temp, rowCount, err, hist>>
           ELSE /\ ReturnError(Err("failed to infer schema", r.err))
                /\ conns' = CloseConn(conns, "LoadGeoJSON")
                /\ UNCHANGED schema
    /\ UNCHANGED <<arch, harnessVars, promptVars, cmdVars, file, tableName, tableExists, target,
                   store0, createdWith>>

CreateTableStep ==
    /\ pc = "create"
    /\ \E ok \in BOOLEAN :
        LET cols == createTableFromSchema(schema)
            done == ok /\ ~CreateTableFails(catalog, tableName, cols)
        IN
        /\ stmts' = Append(stmts, Logged("CREATE TABLE", done))
        /\ IF done
           THEN /\ catalog' = CreateTable(catalog, tableName, cols)
                /\ createdWith' = [createdWith EXCEPT
                                      ![tableName] = GetTableSchema(catalog', tableName)]
                /\ hist' = [hist EXCEPT ![tableName].creates = @ + 1]
                /\ pc' = "load"
                /\ UNCHANGED <<rows, conns, temp, rowCount, err>>
           ELSE /\ ReturnError(Err("failed to create table",
                                   "failed to execute CREATE TABLE"))
                /\ conns' = CloseConn(conns, "LoadGeoJSON")
                /\ UNCHANGED createdWith
    /\ UNCHANGED <<arch, harnessVars, promptVars, cmdVars, file, tableName, tableExists, schema, target,
                   store0>>

\* Variant: the DROP is not deferred (a statement after the last return).
DeferredDropNeverRun(dropOk) == <<>>

\* line 180, defer db.Exec("DROP TABLE IF EXISTS temp_geojson"): what every
\* return of loadDataIntoTable after it sends to the engine; the statement's
\* error is discarded.
DeferredDrop(dropOk) == <<Logged("DROP TABLE", dropOk)>>

CreateTempTable ==
    /\ pc = "load"
    /\ \E ok \in BOOLEAN :
        LET done == ok /\ file.kind = "ok" /\ ~temp IN
        /\ stmts' = Append(stmts, Logged("CREATE TEMPORARY TABLE", done))
        /\ IF done
           THEN /\ temp' = TRUE
                /\ pc' = "getSchema"
                /\ UNCHANGED <<storeVars, conns, rowCount, err, hist>>
           ELSE /\ ReturnError(Err("failed to load data", "failed to read GeoJSON file"))
                /\ conns' = CloseConn(conns, "LoadGeoJSON")
    /\ UNCHANGED <<arch, harnessVars, promptVars, cmdVars, file, tableName, tableExists, schema, target,
                   store0, createdWith>>

GetTargetSchema ==
    /\ pc = "getSchema"
    /\ \/ /\ stmts' = Append(stmts, Logged("GetTableSchema", TRUE))
          /\ target' = GetTableSchema(catalog, tableName)
          /\ pc' = "insert"
          /\ conns' = WithConnection(conns, "GetTableSchema", TRUE)
          /\ UNCHANGED <<storeVars, temp, rowCount, err, hist>>
       \/ \E dropOk \in BOOLEAN :
          /\ stmts' = Append(stmts, Logged("GetTableSchema", FALSE)) \o DeferredDrop(dropOk)
          /\ ReturnError(Err("failed to load data", "failed to get table schema"))
          /\ conns' = CloseConn(WithConnection(conns, "GetTableSchema", FALSE),
                                "LoadGeoJSON")
          /\ UNCHANGED target
    /\ UNCHANGED <<arch, harnessVars, promptVars, cmdVars, file, tableName, tableExists, schema,
                   store0, createdWith>>

InsertData ==
    /\ pc = "insert"
    /\ \E ok \in BOOLEAN, dropOk \in BOOLEAN :
        LET r == ExecInsert(catalog, rows, tableName, file.features, selectCols(target))
            done == ok /\ ~r.failed
        IN
        /\ stmts' = Append(stmts, Logged("INSERT", done)) \o DeferredDrop(dropOk)
        /\ conns' = CloseConn(conns, "LoadGeoJSON")
        /\ IF done
           THEN /\ catalog' = r.catalog
                /\ rows' = r.rows
                /\ rowCount' = r.affected
                /\ temp' = FALSE
                /\ pc' = "done"
                /\ hist' = Finished(TRUE)
                /\ UNCHANGED err
           ELSE ReturnError(Err("failed to load data", "failed to insert data"))
    /\ UNCHANGED <<arch, harnessVars, promptVars, cmdVars, file, tableName, tableExists, schema, target,
                   store0, createdWith>>

\* The GeoJSON files that exist.
GeojsonFiles == {"cities.geojson", ".geojson"}

CmdStart(files) ==
    /\ command = "none"
    /\ cmdPc = "idle"
    /\ dbPath = ""
    /\ geojsonPath = ""
    /\ tableFlag = ""
    /\ cmdTableName = ""
    /\ disk = files
    /\ cmdErr = "nil"
    /\ cmdStmts = <<>>
    /\ cmdStore0 = [catalog |-> {}, rows |-> [t \in TableNames |-> <<>>]]
    /\ cmdCount = 0

CmdIdle == CmdStart(GeojsonFiles)

HarnessIdle ==
    /\ call = "none"
    /\ arg = Val("none", "", 0, 0)
    /\ ret = "none"
    /\ argFile = MalformedFile
    /\ retSchema = <<>>
    /\ retErr = NoError
    /\ argPath = <<>>
    /\ argFlag = <<>>
    /\ retName = <<>>

LoaderStart(cat) ==
    /\ catalog = cat
    /\ rows = [t \in TableNames |-> <<>>]
    /\ conns = NoConns
    /\ temp = FALSE
    /\ pc = "idle"
    /\ file = MalformedFile
    /\ tableName = "cities"
    /\ tableExists = FALSE
    /\ schema = <<>>
    /\ target = <<>>
    /\ rowCount = 0
    /\ err = NoErr
    /\ store0 = [catalog |-> cat, rows |-> [t \in TableNames |-> <<>>]]
    /\ stmts = <<>>
    /\ createdWith = [t \in TableNames |-> <<>>]
    /\ hist = [t \in TableNames |-> NoHist]

\* A new database: no table.
LoaderIdle == LoaderStart({})

Init ==
    /\ arch \in Archs
    /\ HarnessIdle
    /\ PromptIdle
    /\ CmdIdle
    /\ LoaderIdle

Next ==
    \/ StartLoad
    \/ LoadSpatialExtension
    \/ CheckTableExists
    \/ InferSchema
    \/ CreateTableStep
    \/ CreateTempTable
    \/ GetTargetSchema
    \/ InsertData

Spec == Init /\ [][Next]_vars

\* ------------------------------------------------ the init and load commands
GeojsonPaths == GeojsonFiles \cup {"absent.geojson"}
InitFilenames == {"", " ", "mydata", "mydata.duckdb"}
DbFlags == {"mydata", "mydata.duckdb"}
TableFlags == {"", "parks", "my-table"}
CmdFiles == {f \in LoadFiles : Len(f.features) <= 1}

ErrFileNotFound == "GeoJSON file not found"
ErrDatabaseNotFound == "database not found"
ErrCreateOpen == "failed to create/open database"
ErrInitSpatial == "failed to initialize spatial extension"
ErrCheckTable == "failed to check if table exists"
ErrLoadGeoJSON == "failed to load GeoJSON"

Terminated == cmdPc \in {"idle", "done", "failed"}

\* return fmt.Errorf(...) from the command.
CmdFails(e) ==
    /\ cmdPc' = "failed"
    /\ cmdErr' = e

\* A command starts: the shell runs one command after the other.
CmdBegins(name) ==
    /\ Terminated
    /\ cmdCount < MaxCmds
    /\ cmdCount' = cmdCount + 1
    /\ command' = name
    /\ cmdStmts' = <<>>
    /\ cmdStore0' = [catalog |-> catalog, rows |-> rows]

\* runInit lines 27-57, with the filename from args[0] or from the prompt.
RunInit ==
    /\ CmdBegins("init")
    /\ \E filename \in InitFilenames :
        IF TrimSpace(Spelling[filename]) = <<>>
        THEN /\ CmdFails(ErrEmptyFilename)
             /\ UNCHANGED dbPath
        ELSE /\ dbPath' = StringOf(EnsureDuckDBExtension(Spelling[filename]))
             /\ cmdPc' = "createOrOpen"
             /\ cmdErr' = "nil"
    /\ UNCHANGED <<geojsonPath, tableFlag, cmdTableName, disk>>
    /\ UNCHANGED <<arch, harnessVars, promptVars, loaderVars>>

\* runInit lines 59-61 and CreateOrOpenDatabase: opening creates the file.
CreateOrOpenDatabase ==
    /\ cmdPc = "createOrOpen"
    /\ \E ok \in BOOLEAN :
        /\ cmdStmts' = Append(cmdStmts, Logged("CreateOrOpenDatabase", ok))
        /\ conns' = WithConnection(conns, "CreateOrOpenDatabase", ok)
        /\ IF ok
           THEN /\ disk' = disk \cup {dbPath}
                /\ cmdPc' = "initSpatial"
                /\ UNCHANGED cmdErr
           ELSE /\ CmdFails(ErrCreateOpen)
                /\ UNCHANGED disk
    /\ UNCHANGED <<command, dbPath, geojsonPath, tableFlag, cmdTableName, cmdStore0,
                   cmdCount>>
    /\ UNCHANGED <<arch, harnessVars, promptVars, storeVars, temp, pc, localVars,
                   historyVars>>

\* runInit lines 63-70 and InitSpatialExtension.
InitSpatialExtension ==
    /\ cmdPc = "initSpatial"
    /\ \E ok \in BOOLEAN :
        /\ cmdStmts' = Append(cmdStmts, Logged("InitSpatialExtension", ok))
        /\ conns' = WithConnection(conns, "InitSpatialExtension", ok)
        /\ IF ok
           THEN /\ cmdPc' = "done"
                /\ UNCHANGED cmdErr
           ELSE CmdFails(ErrInitSpatial)
    /\ UNCHANGED <<command, dbPath, geojsonPath, tableFlag, cmdTableName, disk,
                   cmdStore0, cmdCount>>
    /\ UNCHANGED <<arch, harnessVars, promptVars, storeVars, temp, pc, localVars,
                   historyVars>>

\* runLoad lines 205-230: the two file checks and the table name.
RunLoad ==
    /\ CmdBegins("load")
    /\ \E path \in GeojsonPaths, dbFlag \in DbFlags, flag \in TableFlags :
        /\ geojsonPath' = path
        /\ tableFlag' = flag
        /\ dbPath' = StringOf(EnsureDuckDBExtension(Spelling[dbFlag]))
        /\ IF ~FileExists(disk, path)
           THEN /\ CmdFails(ErrFileNotFound)
                /\ cmdTableName' = ""
           ELSE IF ~FileExists(disk, dbPath')
           THEN /\ CmdFails(ErrDatabaseNotFound)
                /\ cmdTableName' = ""
           ELSE /\ cmdTableName' = StringOf(ResolveTableName(Spelling[path], Spelling[flag]))
                /\ cmdPc' = "tableExists"
                /\ cmdErr' = "nil"
    /\ UNCHANGED disk
    /\ UNCHANGED <<arch, harnessVars, promptVars, loaderVars>>

\* runLoad lines 232-242: database.TableExists.
RunLoadTableExists ==
    /\ cmdPc = "tableExists"
    /\ \E ok \in BOOLEAN :
        /\ cmdStmts' = Append(cmdStmts, Logged("TableExists", ok))
        /\ conns' = WithConnection(conns, "TableExists", ok)
        /\ IF ok
           THEN /\ cmdPc' = "load"
                /\ UNCHANGED cmdErr
           ELSE CmdFails(ErrCheckTable)
    /\ UNCHANGED <<command, dbPath, geojsonPath, tableFlag, cmdTableName, disk,
                   cmdStore0, cmdCount>>
    /\ UNCHANGED <<arch, harnessVars, promptVars, storeVars, temp, pc, localVars,
                   historyVars>>

\* runLoad line 245: geojson.LoadGeoJSON is called with the file as it is now.
RunLoadCallsLoadGeoJSON ==
    /\ cmdPc = "load"
    /\ \E src \in CmdFiles : BeginLoad(src, cmdTableName)
    /\ cmdPc' = "loading"
    /\ UNCHANGED <<command, dbPath, geojsonPath, tableFlag, cmdTableName, disk, cmdErr,
                   cmdStmts, cmdStore0, cmdCount>>

\* runLoad lines 245-251: LoadGeoJSON returned.
RunLoadGeoJSONReturned ==
    /\ cmdPc = "loading"
    /\ pc \in {"done", "failed"}
    /\ cmdStmts' = cmdStmts \o stmts
    /\ IF pc = "failed"
       THEN CmdFails(ErrLoadGeoJSON)
       ELSE /\ cmdPc' = "report"
            /\ UNCHANGED cmdErr
    /\ UNCHANGED <<command, dbPath, geojsonPath, tableFlag, cmdTableName, disk,
                   cmdStore0, cmdCount>>
    /\ UNCHANGED <<arch, harnessVars, promptVars, loaderVars>>

\* runLoad lines 253-263: the schema is fetched for the report; when the fetch
\* fails nothing is printed and the command returns nil all the same.
RunLoadReport ==
    /\ cmdPc = "report"
    /\ \E ok \in BOOLEAN :
        /\ cmdStmts' = Append(cmdStmts, Logged("GetTableSchema", ok))
        /\ conns' = WithConnection(conns, "GetTableSchema", ok)
    /\ cmdPc' = "done"
    /\ cmdErr' = "nil"
    /\ UNCHANGED <<command, dbPath, geojsonPath, tableFlag, cmdTableName, disk,
                   cmdStore0, cmdCount>>
    /\ UNCHANGED <<arch, harnessVars, promptVars, storeVars, temp, pc, localVars,
                   historyVars>>

InitCmd ==
    /\ arch \in Archs
    /\ HarnessIdle
    /\ PromptIdle
    /\ LoaderIdle
    /\ \E db \in SUBSET {"mydata.duckdb"} : CmdStart(GeojsonFiles \cup db)

NextCmd ==
    \/ RunInit
    \/ CreateOrOpenDatabase
    \/ InitSpatialExtension
    \/ RunLoad
    \/ RunLoadTableExists
    \/ RunLoadCallsLoadGeoJSON
    \/ LoadSpatialExtension
    \/ CheckTableExists
    \/ InferSchema
    \/ CreateTableStep
    \/ CreateTempTable
    \/ GetTargetSchema
    \/ InsertData
    \/ RunLoadGeoJSONReturned
    \/ RunLoadReport

SpecCmd == InitCmd /\ [][NextCmd]_vars

\* ------------------------------------------- loading into a foreign table
\* Tables the loader did not create: made by hand in the database before the
\* load, with geom first, in the middle, last or missing.
ForeignSchemas ==
    {<<Column("geom", "GEOMETRY"), Column("name", "VARCHAR")>>,
     <<Column("name", "VARCHAR"), Column("geom", "GEOMETRY"), Column("pop", "BIGINT")>>,
     <<Column("name", "VARCHAR"), Column("geom", "GEOMETRY")>>,
     <<Column("name", "VARCHAR")>>}

InitForeign ==
    /\ arch \in Archs
    /\ HarnessIdle
    /\ PromptIdle
    /\ CmdIdle
    /\ \E cols \in ForeignSchemas : LoaderStart(CreateTable({}, "cities", cols))

SpecForeign == InitForeign /\ [][Next]_vars

\* The SELECT expression that is the value for a column: the geometry for
\* geom, the property of the column's name for any other.
ExprFor(col) ==
    IF col.name = "geom"
    THEN [kind |-> "geometry", name |-> "geom"]
    ELSE [kind |-> "property", name |-> col.name]

\* C18 as stated: for every existing target table, the SELECT list of the
\* insert has one expression per column of the table and its i-th expression
\* is the value for the table's i-th column, wherever geom is and whether or
\* not there is one.
C18_SelectInTargetOrder ==
    pc = "insert" =>
        /\ Len(selectCols(target)) = Len(target)
        /\ \A i \in 1..Len(target) : selectCols(target)[i] = ExprFor(target[i])

\* ----------------------------------------------------- command properties
\* The storage operations of the running load command so far, in order.
InvocationLog == IF cmdPc = "loading" THEN cmdStmts \o stmts ELSE cmdStmts

SomeOperationFailed == \E i \in 1..Len(InvocationLog) : ~InvocationLog[i].ok

ResolvedName == StringOf(ResolveTableName(Spelling[geojsonPath], Spelling[tableFlag]))

\* C14 as stated: a load command whose source file does not exist, or whose
\* resolved table name is empty, executes no storage operation (no
\* TableExists, no CREATE TABLE, no insert), ends failed with an error that is
\* not a storage error, and leaves the store as it was.
C14_ValidationBeforeStore ==
    (command = "load" /\ (~FileExists(disk, geojsonPath) \/ ResolvedName = "")) =>
        /\ InvocationLog = <<>>
        /\ cmdPc \in {"done", "failed"} =>
              (cmdPc = "failed" /\ cmdErr \notin {"nil", ErrCheckTable, ErrLoadGeoJSON})
        /\ catalog = cmdStore0.catalog
        /\ rows = cmdStore0.rows

\* C15 as stated: a load command during which any storage operation returned
\* an error (the existence checks, the inference, CREATE TABLE, creating or
\* dropping the temporary table, the schema introspection, the insert, the
\* schema fetch for the report) returns a non-nil error.
C15_NoErrorSwallowed ==
    (command = "load" /\ cmdPc \in {"done", "failed"} /\ SomeOperationFailed) =>
        (cmdPc = "failed" /\ cmdErr # "nil")

\* C16 as stated (its safety part): after the first failed step of a load
\* command no CREATE TABLE and no INSERT is executed and the failed step is not
\* executed again; a command with a failed step ends failed; and a command
\* that ended is done without error or failed with one, never both.
C16_FailStop ==
    command = "load" =>
        /\ \A i, j \in 1..Len(InvocationLog) :
              (i < j /\ ~InvocationLog[i].ok) =>
                  /\ InvocationLog[j].op \notin {"CREATE TABLE", "INSERT"}
                  /\ InvocationLog[j].op # InvocationLog[i].op
        /\ (cmdPc \in {"done", "failed"} /\ SomeOperationFailed) => cmdPc = "failed"
        /\ cmdPc = "done" => cmdErr = "nil"
        /\ cmdPc = "failed" => cmdErr # "nil"

\* C17: every function that opens a database handle has closed it when it
\* returns, with or without error, so no handle is open once an init or load
\* command has returned; no function holds more than one handle; the only
\* handle open between steps is the one LoadGeoJSON opened once, for as long
\* as LoadGeoJSON runs.
C17_ConnectionsClosed ==
    /\ \A o \in Owners : conns[o] \in {0, 1}
    /\ \A o \in Owners \ {"LoadGeoJSON"} : conns[o] = 0
    /\ conns["LoadGeoJSON"] =
          IF cmdPc = "loading" /\ pc \notin {"done", "failed"} THEN 1 ELSE 0
    /\ Terminated => conns = NoConns

C17_Witness ==
    /\ command = "load"
    /\ cmdPc = "failed"
    /\ \E i \in 1..Len(cmdStmts) : cmdStmts[i] = Logged("GetTableSchema", FALSE)
    /\ \E i \in 1..Len(cmdStmts) : cmdStmts[i] = Logged("TableExists", TRUE)
    /\ disk = GeojsonFiles \cup {"mydata.duckdb"}
    /\ conns = NoConns

\* ------------------------------------------------------ loader properties
Returned == pc \in {"done", "failed"}
StoredRows(t) == Len(rows[t])

C2_CreatedAtMostOnce ==
    /\ \A t \in TableNames : hist[t].creates <= 1
    /\ (Did("TableExists") /\ tableExists) =>
            /\ ~Issued("inferSchemaFromGeoJSON")
            /\ ~Issued("CREATE TABLE")

C2_Witness ==
    /\ pc = "done"
    /\ tableExists
    /\ hist[tableName].loads = 2
    /\ hist[tableName].creates = 1
    /\ Did("INSERT")

\* C3: a load of a document with no features whose existence check found the
\* table absent fails with the no-features error and leaves the catalog as it
\* was when the load began.
EmptyIntoAbsent ==
    /\ file.kind = "ok"
    /\ Len(file.features) = 0
    /\ Did("TableExists")
    /\ ~tableExists

C3_EmptySourceNoTable ==
    (Returned /\ EmptyIntoAbsent) =>
        /\ pc = "failed"
        /\ err = Err("failed to infer schema", ErrNoFeatures)
        /\ catalog = store0.catalog
        /\ ~TableExists(catalog, tableName)

C3_Witness ==
    /\ pc = "failed"
    /\ EmptyIntoAbsent
    /\ Issued("inferSchemaFromGeoJSON")
    /\ err.cause = ErrNoFeatures

\* C4: when loadDataIntoTable fails in the invocation that created the table,
\* LoadGeoJSON returns an error, the table still exists, and an existence
\* check for that name sends the next load down the append path.
LoadStepFailed ==
    \E op \in {"CREATE TEMPORARY TABLE", "GetTableSchema", "INSERT"} :
        Issued(op) /\ ~Did(op)

C4_NoRollbackOnLoadFailure ==
    (Did("CREATE TABLE") /\ LoadStepFailed) =>
        /\ pc = "failed"
        /\ err.wrap = "failed to load data"
        /\ err.cause # NoError
        /\ TableExists(catalog, tableName)
        /\ AfterTableExists(TableExists(catalog, tableName)) = "load"

C4_Witness ==
    /\ pc = "failed"
    /\ Did("CREATE TABLE")
    /\ Issued("INSERT")
    /\ ~Did("INSERT")
    /\ TableExists(catalog, tableName)

\* C5: the column list of an existing table (names, types, order) is always
\* the column list it had when it was created.
C5_SchemaFrozen ==
    \A t \in InformationSchemaTables(catalog) :
        GetTableSchema(catalog, t) = createdWith[t]

C5_Witness ==
    /\ pc = "done"
    /\ tableExists
    /\ hist[tableName].loads = 2
    /\ hist[tableName].ok = 2
    /\ \E i \in 1..Len(createdWith[tableName]) : createdWith[tableName][i].type = "BIGINT"
    /\ DOMAIN file.features[1].props = {"geom"}

SomeFeatureFails ==
    \E k \in 1..Len(file.features) :
        RowFails(InsertRow(file.features[k], selectCols(target), target))

C7_RowCountEqualsFeatures ==
    /\ pc = "done" =>
        /\ rowCount = Len(file.features)
        /\ StoredRows(tableName) = Len(store0.rows[tableName]) + Len(file.features)
    /\ (Returned /\ Issued("INSERT") /\ SomeFeatureFails) =>
        /\ pc = "failed"
        /\ rows = store0.rows

C7_Witness ==
    /\ pc = "failed"
    /\ Issued("INSERT")
    /\ SomeFeatureFails
    /\ \E k \in 1..Len(file.features) :
          ~RowFails(InsertRow(file.features[k], selectCols(target), target))

\* C11: a feature that lacks the property a non-geometry column is named
\* after gets NULL in that column, and the missing property never makes a
\* row fail to convert.
AddedRows ==
    SubSeq(rows[tableName], Len(store0.rows[tableName]) + 1, Len(rows[tableName]))

MissingCells(k) ==
    {i \in 1..Len(target) :
        /\ target[i].name # "geom"
        /\ target[i].name \notin DOMAIN file.features[k].props}

IsPrefix(s, t) == Len(s) <= Len(t) /\ SubSeq(t, 1, Len(s)) = s

OnlyAppends ==
    /\ \A t \in DOMAIN rows : IsPrefix(rows[t], rows'[t])
    /\ InformationSchemaTables(catalog) \subseteq InformationSchemaTables(catalog')

C12_LoadOnlyAppends == [][OnlyAppends]_vars

C12_Witness ==
    /\ pc = "done"
    /\ store0.rows[tableName] # <<>>
    /\ rowCount > 0
    /\ IsPrefix(store0.rows[tableName], rows[tableName])
    /\ Len(rows[tableName]) > Len(store0.rows[tableName])

\* C19: the columns of a newly created table are the first feature's keys
\* plus geom; keys that only later features have get no column, their values
\* are not stored, and the load stores one row per feature.
WithKeys(f, keys) ==
    Feature([k \in (DOMAIN f.props) \cap keys |-> f.props[k]], f.geometry)

C19_SingleSampleInference ==
    (pc = "done" /\ Did("CREATE TABLE")) =>
        LET first == file.features[1]
            cols == GetTableSchema(catalog, tableName)
        IN  /\ Len(cols) = Cardinality(DOMAIN first.props) + 1
            /\ {cols[i].name : i \in 1..(Len(cols) - 1)} = DOMAIN first.props
            /\ cols[Len(cols)] = Column("geom", "GEOMETRY")
            /\ rowCount = Len(file.features)
            /\ Len(AddedRows) = Len(file.features)
            /\ \A k \in 1..Len(file.features) :
                  AddedRows[k] = InsertRow(WithKeys(file.features[k], DOMAIN first.props),
                                           selectCols(cols), cols)

C19_Witness ==
    /\ pc = "done"
    /\ Did("CREATE TABLE")
    /\ Len(file.features) = 2
    /\ ~(DOMAIN file.features[2].props \subseteq DOMAIN file.features[1].props)
    /\ Len(rows[tableName]) = 2

\* C21: a load of a document with no features whose existence check found the
\* table present never runs the inference and never fails with the
\* no-features error; its INSERT is a statement the engine accepts; and when
\* the load is done it returned 0 and the table's rows and columns are the
\* ones it had when the load began.
EmptyIntoExisting ==
    /\ file.kind = "ok"
    /\ Len(file.features) = 0
    /\ Did("TableExists")
    /\ tableExists

C22_TempTableNeverOutlivesLoad ==
    /\ temp => pc \in {"getSchema", "insert"}
    /\ pc \in {"idle", "load", "done", "failed"} => ~temp
    /\ (Returned /\ Did("CREATE TEMPORARY TABLE")) =>
          /\ stmts[Len(stmts)].op = "DROP TABLE"
          /\ \E i \in 1..(Len(stmts) - 1) : stmts[i] = Logged("CREATE TEMPORARY TABLE", TRUE)
    /\ (Returned /\ ~Did("CREATE TEMPORARY TABLE")) => ~Issued("DROP TABLE")

C22_Witness ==
    /\ pc = "load"
    /\ ~temp
    /\ hist[tableName].loads = 1
    /\ store0.rows = rows
    /\ TableExists(catalog, tableName)
    /\ \E t \in TableNames : hist[t].loads = 1 /\ hist[t].ok = 0 /\ hist[t].creates = 1

\* ------------------------------------------------------- pure-function spec
InitInfer ==
    /\ arch \in Archs
    /\ HarnessIdle
    /\ PromptIdle
    /\ CmdIdle
    /\ LoaderIdle

CallInferType ==
    \E v \in Values :
        /\ call = "none"
        /\ call' = "inferType"
        /\ arg' = v
        /\ ret' = inferType(v)
        /\ UNCHANGED <<arch, argFile, retSchema, retErr, argPath, argFlag, retName,
                       promptVars, cmdVars, loaderVars>>

CallInferSchema ==
    \E src \in SampleFiles :
        \E order \in OrdersOf(src) :
            /\ call = "none"
            /\ call' = "inferSchema"
            /\ argFile' = src
            /\ retSchema' = inferSchemaFromGeoJSON(src, order).schema
            /\ retErr' = inferSchemaFromGeoJSON(src, order).err
            /\ UNCHANGED <<arch, arg, ret, argPath, argFlag, retName, promptVars, cmdVars, loaderVars>>

NextInfer == CallInferType \/ CallInferSchema

SpecInfer == InitInfer /\ [][NextInfer]_vars

\* C10: inferType maps a value to a storage type by its shape alone: string
\* to VARCHAR, a number that is integral and representable as a 64-bit
\* integer to BIGINT, any other number to DOUBLE, boolean to BOOLEAN, null
\* and every other shape to VARCHAR; never GEOMETRY.
IsInt64Integral(v) == v.twice % 2 = 0 /\ v.hi >= -2 /\ v.hi <= 1

ExpectedType(v) ==
    CASE v.shape = "string" -> "VARCHAR"
      [] v.shape = "number" -> IF IsInt64Integral(v) THEN "BIGINT" ELSE "DOUBLE"
      [] v.shape = "bool" -> "BOOLEAN"
      [] OTHER -> "VARCHAR"

C10_InferTypeByShape ==
    call = "inferType" => ret = ExpectedType(arg) /\ ret # "GEOMETRY"

\* ------------------------------------------------------ table-name spec
InitName ==
    /\ arch \in Archs
    /\ HarnessIdle
    /\ PromptIdle
    /\ CmdIdle
    /\ LoaderIdle

CallResolveTableName ==
    \E path \in Strings(PathChars, MaxPathLen), flag \in Strings(FlagChars, MaxFlagLen) :
        /\ call = "none"
        /\ call' = "resolveTableName"
        /\ argPath' = path
        /\ argFlag' = flag
        /\ retName' = ResolveTableName(path, flag)
        /\ UNCHANGED <<arch, arg, ret, argFile, retSchema, retErr, promptVars, cmdVars, loaderVars>>

NextName == CallResolveTableName

SpecName == InitName /\ [][NextName]_vars

HasDashOrSpace(str) == \E i \in 1..Len(str) : str[i] \in {"-", " "}

Normalized(from, to) ==
    /\ Len(to) = Len(from)
    /\ \A i \in 1..Len(from) :
          to[i] = IF from[i] \in {"-", " "} THEN "_" ELSE from[i]

InitPrompt ==
    /\ arch \in Archs
    /\ HarnessIdle
    /\ PromptIdle
    /\ CmdIdle
    /\ LoaderIdle

SpecPrompt == InitPrompt /\ [][NextPrompt]_vars

\* C20 as stated: submitted becomes true only on Enter with a non-empty
\* trimmed input; Enter on empty input sets the inline error and returns no
\* quit; Ctrl-C and Esc set cancelled and return quit; and when the program
\* ran to its end, promptForFilename returns a non-empty trimmed name exactly
\* when the final model is submitted, not cancelled and without error, and an
\* error otherwise.
C20_PromptStateMachine ==
    /\ submitted => (msgCount > 0)
    /\ (lastUpdate.msg = "enter" /\ lastUpdate.value # <<>>) => submitted
    /\ (lastUpdate.msg = "enter" /\ lastUpdate.value = <<>>) =>
          (mErr = ErrEmptyFilename /\ lastUpdate.cmd = "nil")
    /\ (lastUpdate.msg \in {"ctrl+c", "esc"}) =>
          (cancelled /\ lastUpdate.cmd = "quit")
    /\ (promptPc = "returned" /\ runErr = "nil") =>
          IF submitted /\ ~cancelled /\ mErr = "nil"
          THEN /\ promptRet.err = "nil"
               /\ promptRet.filename # <<>>
               /\ promptRet.filename = TrimSpace(textInput)
          ELSE promptRet.err # "nil"

\* C8: the Schema built by schema inference has exactly one column named
\* geom, typed GEOMETRY and placed last, whatever the first feature's keys.
GeomPositions(sch) == {i \in 1..Len(sch) : sch[i].name = "geom"}

SchemaBuilt == call = "inferSchema" /\ retErr = NoError

C8_OneGeomColumnLast ==
    SchemaBuilt =>
        /\ GeomPositions(retSchema) = {Len(retSchema)}
        /\ retSchema[Len(retSchema)].type = "GEOMETRY"

\* C9: every property key of the first feature is the name of exactly one
\* column, and the column count is the number of property keys plus one.
FirstProps == argFile.features[1].props

C9_KeysOnceCountPlusOne ==
    SchemaBuilt =>
        /\ \A k \in DOMAIN FirstProps :
              Cardinality({i \in 1..Len(retSchema) : retSchema[i].name = k}) = 1
        /\ Len(retSchema) = Cardinality(DOMAIN FirstProps) + 1
====
